---- MODULE Spec2Model ----
(***************************************************************************)
(* Model of build.rs of ffmpeg-dev-rs: the build pipeline `build()` that   *)
(* extracts the bundled FFmpeg source, gates and runs the native build     *)
(* (configure with one signature-gated retry, then make), prints the link  *)
(* directives, generates the bindings behind an existence gate and         *)
(* compiles the C glue.  One behaviour is a series of pipeline runs over   *)
(* one output directory, which persists between the runs.                  *)
(***************************************************************************)
EXTENDS Integers, Sequences, FiniteSets, TLC

VARIABLES
    platform,        \* compile-time target_os of the build script
    env,             \* process environment of the current run
    source_exists,   \* OUT_DIR/FFmpeg-FFmpeg-2722fc2 exists
    artifacts,       \* relative paths of the STATIC_LIBS files that exist
    gen_file,        \* OUT_DIR/bindings_ffmpeg.rs
    pc,              \* position of the current run inside build()
    skip_build,      \* local of build()
    skip_codegen,    \* local of build()
    ffmpeg_headers,  \* local of build(): the lines of the `headers` file
    configure_log,   \* the configure invocations of the current run
    stdout,          \* the lines the current run printed
    steps,           \* the external steps the current run executed
    failure,         \* the panic that ended the current run, if any
    src_at_start,    \* source_exists when the current run started
    gen_at_start,    \* gen_file when the current run started
    prev,            \* how the run before the current one ended
    call,            \* a call of one of the utility functions
    ret              \* what that call returned

build_vars == <<platform, env, source_exists, artifacts, gen_file, pc, skip_build,
                skip_codegen, ffmpeg_headers, configure_log, stdout, steps, failure,
                src_at_start, gen_at_start>>

vars == <<build_vars, prev, call, ret>>

(***************************************************************************)
(* Bounds of the model.                                                    *)
(***************************************************************************)
\* longest `headers` file, in characters
MaxLen == 3
\* most artifact files missing after a failed make that left some
MaxMissing == 1
\* most paths handed to lookup_newest
MaxPaths == 3
\* latest creation time of a path, in ticks since the epoch
MaxTime == 1

(***************************************************************************)
(* Environment.                                                            *)
(***************************************************************************)
NoVar == "<unset>"

Platforms == {"unix", "windows"}

Envs ==
    [OUT_DIR   : {NoVar, "out"},
     PROFILE   : {NoVar, "release", "RELEASE", "debug"},
     OPT_LEVEL : {"0", "3"},
     FFDEV1    : {NoVar, "1"},
     FFDEV2    : {NoVar, "2"}]

\* str::to_lowercase on the values the environment can hold
to_lowercase(s) ==
    CASE s = "RELEASE" -> "release"
      [] s = "DEBUG"   -> "debug"
      [] OTHER         -> s

has_env_var_with_value(e, s, v) ==
    IF e[s] = NoVar THEN FALSE ELSE to_lowercase(e[s]) = to_lowercase(v)

is_release_mode(e) == has_env_var_with_value(e, "PROFILE", "release")

is_debug_mode(e) == has_env_var_with_value(e, "PROFILE", "debug")

opt_level_eq(e, x) == has_env_var_with_value(e, "OPT_LEVEL", x)

(***************************************************************************)
(* Paths.                                                                  *)
(***************************************************************************)
STATIC_LIBS ==
    << <<"avcodec",    "libavcodec/libavcodec.a">>,
       <<"avdevice",   "libavdevice/libavdevice.a">>,
       <<"avfilter",   "libavfilter/libavfilter.a">>,
       <<"avformat",   "libavformat/libavformat.a">>,
       <<"avutil",     "libavutil/libavutil.a">>,
       <<"swresample", "libswresample/libswresample.a">>,
       <<"swscale",    "libswscale/libswscale.a">> >>

SEARCH_PATHS ==
    <<"libavcodec", "libavdevice", "libavfilter", "libavformat",
      "libavresample", "libavutil", "libpostproc", "libswresample",
      "libswscale">>

\* the artifact files, each named by the relative path of STATIC_LIBS
ArtifactPaths == {STATIC_LIBS[i][2] : i \in DOMAIN STATIC_LIBS}

out_dir(e) == <<e.OUT_DIR>>

source_path(e) == Append(out_dir(e), "FFmpeg-FFmpeg-2722fc2")

VcpkgLib == <<"D:", "Robert", "repos", "vcpkg", "installed", "x64-windows-static", "lib">>

(***************************************************************************)
(* The native-build gate and the extraction decision.                      *)
(***************************************************************************)
already_built(arts) ==
    \A i \in DOMAIN STATIC_LIBS : STATIC_LIBS[i][2] \in arts

\* faulty variant: the gate forgets the release profile
BuildGate_IgnoresProfile(plat, e, arts) ==
    LET s1 == already_built(arts)
        s2 == IF has_env_var_with_value(e, "FFDEV1", "1") THEN FALSE ELSE s1
    IN  IF plat = "windows" THEN TRUE ELSE s2

BuildGate(plat, e, arts) ==
    LET s1 == already_built(arts) /\ ~is_release_mode(e)
        s2 == IF has_env_var_with_value(e, "FFDEV1", "1") THEN FALSE ELSE s1
    IN  IF plat = "windows" THEN TRUE ELSE s2

\* faulty variant: the archive is extracted in every run
NeedExtract_Always(src, skip) == TRUE

\* faulty variant: extraction only when the source tree is absent
NeedExtract_OnlyWhenAbsent(src, skip) == ~src

\* faulty variant: extraction follows the native build only
NeedExtract_OnlyWhenBuilding(src, skip) == ~skip

NeedExtract(src, skip) == ~src \/ ~skip

(***************************************************************************)
(* Configure: flags, captured output, the nasm/yasm signature.             *)
(***************************************************************************)
BaseFlags == <<"--disable-programs", "--disable-doc", "--disable-autodetect">>

DevFlags == <<"--disable-optimizations", "--disable-debug", "--disable-stripping">>

\* faulty variant: the development flags follow the profile alone
ConfigureFlags_AnyOptLevel(e) ==
    IF is_debug_mode(e) THEN BaseFlags \o DevFlags ELSE BaseFlags

ConfigureFlags(e) ==
    IF is_debug_mode(e) /\ opt_level_eq(e, "0")
    THEN BaseFlags \o DevFlags
    ELSE BaseFlags

RetryFlags(flags) == Append(flags, "--disable-x86asm")

\* a line of captured output is a sequence of words
Signature == <<"nasm/yasm", "not", "found", "or", "too", "old">>

NasmLine == Signature \o <<"use", "--disable-x86asm">>

NearMissLine == <<"nasm/yasm", "not", "found">>

OtherLine == <<"ERROR:", "gcc", "not", "found", "or", "too", "old">>

\* str::contains on a line
contains(line, pat) ==
    \E i \in 0 .. (Len(line) - Len(pat)) : SubSeq(line, i + 1, i + Len(pat)) = pat

\* the outputs a failed ./configure can leave in stderr and stdout
FailOutputs ==
    [stderr : {<<>>, <<OtherLine>>, <<OtherLine, NasmLine>>},
     stdout : {<<NearMissLine>>, <<NasmLine>>}]

\* faulty variant: every configure failure is retried
nasm_yasm_issue_AnyFailure(out) == TRUE

nasm_yasm_issue(out) ==
    LET all == out.stderr \o out.stdout
    IN  \E i \in DOMAIN all : contains(all[i], Signature)

\* vec![stderr, stdout].join("\n")
JoinOutput(out) == out.stderr \o out.stdout

\* faulty variant: the panic after a failed retry shows the first attempt
ConfigureDiag_FirstAttempt(first, retry) ==
    << <<"configure", "failed:">> >> \o JoinOutput(first)

\* the text of the panic after a failed retry
ConfigureDiag(first, retry) == << <<"configure", "failed:">> >> \o JoinOutput(retry)

(***************************************************************************)
(* Link directives.                                                        *)
(***************************************************************************)
Directive(k, q, v) == [key |-> k, kind |-> q, value |-> v]

RECURSIVE SearchDirectives(_, _)
SearchDirectives(root, dirs) ==
    IF dirs = <<>> THEN <<>>
    ELSE <<Directive("cargo:rustc-link-search", "native", Append(root, Head(dirs)))>>
         \o SearchDirectives(root, Tail(dirs))

WindowsDirectives ==
    <<Directive("cargo:rustc-link-search", "native", VcpkgLib),
      Directive("cargo:rustc-link-search", "static", VcpkgLib),
      Directive("cargo:rustc-link-lib", "", <<"Bcrypt">>),
      Directive("cargo:rustc-link-lib", "", <<"Secur32">>),
      Directive("cargo:rustc-link-lib", "", <<"Ole32">>),
      Directive("cargo:rustc-link-lib", "", <<"User32">>)>>

\* faulty variant: the libraries are declared last to first
RECURSIVE StaticLibDirectives_Reversed(_)
StaticLibDirectives_Reversed(libs) ==
    IF libs = <<>> THEN <<>>
    ELSE StaticLibDirectives_Reversed(Tail(libs))
         \o <<Directive("cargo:rustc-link-lib", "static", <<Head(libs)[1]>>)>>

RECURSIVE StaticLibDirectives(_)
StaticLibDirectives(libs) ==
    IF libs = <<>> THEN <<>>
    ELSE <<Directive("cargo:rustc-link-lib", "static", <<Head(libs)[1]>>)>>
         \o StaticLibDirectives(Tail(libs))

LinkDirectives(plat, e) ==
    <<Directive("cargo:rustc-link-search", "native", source_path(e))>>
    \o (IF plat = "windows" THEN WindowsDirectives
        ELSE SearchDirectives(source_path(e), SEARCH_PATHS))
    \o StaticLibDirectives(STATIC_LIBS)

(***************************************************************************)
(* The header manifest (the file `headers`) and the codegen gate.          *)
(***************************************************************************)
Chars == {"a", "b", " ", "\n"}

\* the contents the `headers` file can have: strings of at most MaxLen characters
ManifestContents == UNION {[1 .. n -> Chars] : n \in 0 .. MaxLen}

\* the header files the archive ships, relative to the source tree
SourceHeaders == {<<"a">>}

\* the pieces of s between its "\n" characters
RECURSIVE SplitNewline(_)
SplitNewline(s) ==
    IF s = <<>> THEN << <<>> >>
    ELSE LET rest == SplitNewline(Tail(s))
         IN  IF Head(s) = "\n" THEN << <<>> >> \o rest
             ELSE << <<Head(s)>> \o Head(rest) >> \o Tail(rest)

\* str::lines: a final newline ends the last line and starts no new one
lines(s) ==
    LET p == SplitNewline(s)
    IN  IF p[Len(p)] = <<>> THEN SubSeq(p, 1, Len(p) - 1) ELSE p

is_whitespace(c) == c \in {" ", "\n", "\t", "\r"}

RECURSIVE trim_start(_)
trim_start(s) ==
    IF s # <<>> /\ is_whitespace(Head(s)) THEN trim_start(Tail(s)) ELSE s

RECURSIVE trim_end(_)
trim_end(s) ==
    IF s # <<>> /\ is_whitespace(s[Len(s)])
    THEN trim_end(SubSeq(s, 1, Len(s) - 1))
    ELSE s

\* str::trim
trim(s) == trim_end(trim_start(s))

\* faulty variant: the assert looks at the untrimmed lines
ManifestAccepted_NoTrim(ls) == \A i \in DOMAIN ls : ls[i] # <<>>

\* the assert! on the lines of the manifest
ManifestAccepted(ls) == \A i \in DOMAIN ls : trim(ls[i]) # <<>>

\* source_path.join(line)
HeaderPath(e, line) == source_path(e) \o line

\* PathBuf::from(path).exists() for a header of the source tree
HeaderExists(src, line) == src /\ line \in SourceHeaders

\* faulty variant: the fold keeps the first missing header only
RECURSIVE Missing_FirstOnly(_, _, _)
Missing_FirstOnly(e, src, ls) ==
    IF ls = <<>> THEN <<>>
    ELSE IF HeaderExists(src, Head(ls))
         THEN Missing_FirstOnly(e, src, Tail(ls))
         ELSE <<HeaderPath(e, Head(ls))>>

\* the `missing` vector the fold fills
RECURSIVE Missing(_, _, _)
Missing(e, src, ls) ==
    IF ls = <<>> THEN <<>>
    ELSE (IF HeaderExists(src, Head(ls)) THEN <<>> ELSE <<HeaderPath(e, Head(ls))>>)
         \o Missing(e, src, Tail(ls))

\* the headers the fold hands to the bindgen builder
RECURSIVE Resolved(_, _, _)
Resolved(e, src, ls) ==
    IF ls = <<>> THEN <<>>
    ELSE (IF HeaderExists(src, Head(ls)) THEN <<HeaderPath(e, Head(ls))>> ELSE <<>>)
         \o Resolved(e, src, Tail(ls))

NoFile == [exists |-> FALSE, headers |-> <<>>]

\* bindings_ffmpeg.rs as written from the given headers
Generated(hs) == [exists |-> TRUE, headers |-> hs]

\* faulty variant: either override forces the code generation
CodegenGate_AnyOverride(gen, e) ==
    IF has_env_var_with_value(e, "FFDEV2", "2") \/ has_env_var_with_value(e, "FFDEV1", "1")
    THEN FALSE
    ELSE gen.exists

\* faulty variant: the gate forgets the FFDEV2 override
CodegenGate_IgnoresOverride(gen, e) == gen.exists

CodegenGate(gen, e) ==
    IF has_env_var_with_value(e, "FFDEV2", "2") THEN FALSE ELSE gen.exists

(***************************************************************************)
(* The pipeline.                                                           *)
(***************************************************************************)
NoFailure == [kind |-> "none", text |-> <<>>]

Panic(k, t) == [kind |-> k, text |-> t]

\* what a failed make can leave of the artifact files
PartialArtifacts ==
    {S \in SUBSET ArtifactPaths :
        S = {} \/ Cardinality(ArtifactPaths \ S) <= MaxMissing}

ConfigureResults ==
    {[ok |-> TRUE, stderr |-> <<>>, stdout |-> <<>>]}
    \cup {[ok |-> FALSE, stderr |-> o.stderr, stdout |-> o.stdout] : o \in FailOutputs}

Invocation(flags, res) ==
    [flags |-> flags, ok |-> res.ok,
     output |-> [stderr |-> res.stderr, stdout |-> res.stdout]]

BuildInit ==
    /\ platform \in Platforms
    /\ env = [OUT_DIR |-> NoVar, PROFILE |-> NoVar, OPT_LEVEL |-> "0",
              FFDEV1 |-> NoVar, FFDEV2 |-> NoVar]
    /\ source_exists = FALSE
    /\ artifacts = {}
    /\ gen_file = NoFile
    /\ pc = "idle"
    /\ skip_build = FALSE
    /\ skip_codegen = FALSE
    /\ ffmpeg_headers = <<>>
    /\ configure_log = <<>>
    /\ stdout = <<>>
    /\ steps = <<>>
    /\ failure = NoFailure
    /\ src_at_start = FALSE
    /\ gen_at_start = NoFile

\* no run came before
NoPrev == [outcome |-> "none", profile |-> NoVar, links |-> <<>>, headers |-> <<>>]

\* no utility function is called
NoCall == [fn |-> "none", readable |-> TRUE, unpack_ok |-> TRUE, dirs |-> {},
           created |-> <<>>]

NoRet == [done |-> FALSE, value |-> <<>>]

Init ==
    /\ BuildInit
    /\ prev = NoPrev
    /\ call = NoCall
    /\ ret = NoRet

\* cargo starts the build script with environment e
StartRun(e) ==
    /\ pc \in {"idle", "done", "failed"}
    /\ pc' = "start"
    /\ env' = e
    /\ skip_build' = FALSE
    /\ skip_codegen' = FALSE
    /\ ffmpeg_headers' = <<>>
    /\ configure_log' = <<>>
    /\ stdout' = <<>>
    /\ steps' = <<>>
    /\ failure' = NoFailure
    /\ src_at_start' = source_exists
    /\ gen_at_start' = gen_file
    /\ UNCHANGED <<platform, source_exists, artifacts, gen_file>>

\* out_dir(): OUT_DIR is not set
OutDirMissing ==
    /\ pc = "start"
    /\ env.OUT_DIR = NoVar
    /\ pc' = "failed"
    /\ failure' = Panic("env", << <<"OUT_DIR", "env", "var">> >>)
    /\ UNCHANGED <<platform, env, source_exists, artifacts, gen_file, skip_build,
                   skip_codegen, ffmpeg_headers, configure_log, stdout, steps,
                   src_at_start, gen_at_start>>

\* already_built, skip_build
EvalBuildGate ==
    /\ pc = "start"
    /\ env.OUT_DIR # NoVar
    /\ skip_build' = BuildGate(platform, env, artifacts)
    /\ pc' = "extract"
    /\ UNCHANGED <<platform, env, source_exists, artifacts, gen_file, skip_codegen,
                   ffmpeg_headers, configure_log, stdout, steps, failure,
                   src_at_start, gen_at_start>>

\* EXTRACT: the condition is false
ExtractSkip ==
    /\ pc = "extract"
    /\ ~NeedExtract(source_exists, skip_build)
    /\ pc' = "build"
    /\ UNCHANGED <<platform, env, source_exists, artifacts, gen_file, skip_build,
                   skip_codegen, ffmpeg_headers, configure_log, stdout, steps,
                   failure, src_at_start, gen_at_start>>

\* EXTRACT: the archive unpacks and the source directory is there
ExtractOk ==
    /\ pc = "extract"
    /\ NeedExtract(source_exists, skip_build)
    /\ steps' = Append(steps, "extract")
    /\ source_exists' = TRUE
    /\ pc' = "build"
    /\ UNCHANGED <<platform, env, artifacts, gen_file, skip_build, skip_codegen,
                   ffmpeg_headers, configure_log, stdout, failure, src_at_start,
                   gen_at_start>>

\* EXTRACT: the decompression (or, on windows, a copy) fails, or it succeeds
\* and the source directory is not there; created tells whether the failed
\* step left the source directory behind
ExtractFail(created) ==
    /\ pc = "extract"
    /\ NeedExtract(source_exists, skip_build)
    /\ steps' = Append(steps, "extract")
    /\ source_exists' = (source_exists \/ created)
    /\ pc' = "failed"
    /\ failure' = Panic("extract", << <<"assertion", "failed">> >>)
    /\ UNCHANGED <<platform, env, artifacts, gen_file, skip_build, skip_codegen,
                   ffmpeg_headers, configure_log, stdout, src_at_start, gen_at_start>>

\* BUILD CODE PHASE: skipped
BuildSkip ==
    /\ pc = "build"
    /\ skip_build
    /\ pc' = "link"
    /\ UNCHANGED <<platform, env, source_exists, artifacts, gen_file, skip_build,
                   skip_codegen, ffmpeg_headers, configure_log, stdout, steps,
                   failure, src_at_start, gen_at_start>>

\* CONFIGURE: the first ./configure, with result res
Configure(res) ==
    /\ pc = "build"
    /\ ~skip_build
    /\ steps' = Append(steps, "configure")
    /\ configure_log' = <<Invocation(ConfigureFlags(env), res)>>
    /\ IF res.ok
       THEN pc' = "make" /\ failure' = failure
       ELSE IF nasm_yasm_issue(res)
            THEN pc' = "configure_retry" /\ failure' = failure
            ELSE /\ pc' = "failed"
                 /\ failure' = Panic("configure",
                                     << <<"configure", "failed:">> >> \o JoinOutput(res))
    /\ UNCHANGED <<platform, env, source_exists, artifacts, gen_file, skip_build,
                   skip_codegen, ffmpeg_headers, stdout, src_at_start, gen_at_start>>

\* faulty variant: the status of the second ./configure is not looked at
ConfigureRetry_StatusIgnored(res) ==
    /\ pc = "configure_retry"
    /\ steps' = Append(steps, "configure")
    /\ configure_log' =
           Append(configure_log, Invocation(RetryFlags(configure_log[1].flags), res))
    /\ pc' = "make"
    /\ UNCHANGED <<platform, env, source_exists, artifacts, gen_file, skip_build,
                   skip_codegen, ffmpeg_headers, stdout, failure, src_at_start,
                   gen_at_start>>

\* MAYBE RETRY: the second ./configure, with result res
ConfigureRetry(res) ==
    /\ pc = "configure_retry"
    /\ steps' = Append(steps, "configure")
    /\ configure_log' =
           Append(configure_log, Invocation(RetryFlags(configure_log[1].flags), res))
    /\ IF res.ok
       THEN pc' = "make" /\ failure' = failure
       ELSE /\ pc' = "failed"
            /\ failure' = Panic("configure", ConfigureDiag(configure_log[1].output, res))
    /\ UNCHANGED <<platform, env, source_exists, artifacts, gen_file, skip_build,
                   skip_codegen, ffmpeg_headers, stdout, src_at_start, gen_at_start>>

\* faulty variant: the link directives are printed before make has run
MakeOk_LinkedFirst ==
    /\ pc = "make"
    /\ steps' = steps \o <<"link", "make">>
    /\ stdout' = stdout \o LinkDirectives(platform, env)
    /\ artifacts' = ArtifactPaths
    /\ pc' = "codegen_setup"
    /\ UNCHANGED <<platform, env, source_exists, gen_file, skip_build, skip_codegen,
                   ffmpeg_headers, configure_log, failure, src_at_start, gen_at_start>>

\* BUILD: make succeeds
MakeOk ==
    /\ pc = "make"
    /\ steps' = Append(steps, "make")
    /\ artifacts' = ArtifactPaths
    /\ pc' = "link"
    /\ UNCHANGED <<platform, env, source_exists, gen_file, skip_build, skip_codegen,
                   ffmpeg_headers, configure_log, stdout, failure, src_at_start,
                   gen_at_start>>

\* faulty variant: the link directives are printed before the status of make
\* is looked at
MakeFail_AfterLinking(left) ==
    /\ pc = "make"
    /\ steps' = Append(steps, "make")
    /\ artifacts' = left
    /\ stdout' = stdout \o LinkDirectives(platform, env)
    /\ pc' = "failed"
    /\ failure' = Panic("compile", << <<"make", "failed:">> >>)
    /\ UNCHANGED <<platform, env, source_exists, gen_file, skip_build, skip_codegen,
                   ffmpeg_headers, configure_log, src_at_start, gen_at_start>>

\* BUILD: make fails and leaves the artifact files left
MakeFail(left) ==
    /\ pc = "make"
    /\ steps' = Append(steps, "make")
    /\ artifacts' = left
    /\ pc' = "failed"
    /\ failure' = Panic("compile", << <<"make", "failed:">> >>)
    /\ UNCHANGED <<platform, env, source_exists, gen_file, skip_build, skip_codegen,
                   ffmpeg_headers, configure_log, stdout, src_at_start, gen_at_start>>

\* LINK
Link ==
    /\ pc = "link"
    /\ steps' = Append(steps, "link")
    /\ stdout' = stdout \o LinkDirectives(platform, env)
    /\ pc' = "codegen_setup"
    /\ UNCHANGED <<platform, env, source_exists, artifacts, gen_file, skip_build,
                   skip_codegen, ffmpeg_headers, configure_log, failure,
                   src_at_start, gen_at_start>>

RerunIfChanged == Directive("rerun-if-changed", "", <<"headers">>)

\* CODEGEN SETUP: the `headers` file cannot be read
ManifestUnreadable ==
    /\ pc = "codegen_setup"
    /\ stdout' = Append(stdout, RerunIfChanged)
    /\ steps' = Append(steps, "manifest")
    /\ pc' = "failed"
    /\ failure' = Panic("manifest", << <<"unable", "to", "read", "headers", "file">> >>)
    /\ UNCHANGED <<platform, env, source_exists, artifacts, gen_file, skip_build,
                   skip_codegen, ffmpeg_headers, configure_log, src_at_start,
                   gen_at_start>>

\* faulty variant: the lines are asserted only when the bindings are generated
LoadManifest_CheckedWhenGenerating(content) ==
    /\ pc = "codegen_setup"
    /\ stdout' = Append(stdout, RerunIfChanged)
    /\ steps' = Append(steps, "manifest")
    /\ ffmpeg_headers' = lines(content)
    /\ IF CodegenGate(gen_file, env) \/ ManifestAccepted(lines(content))
       THEN /\ skip_codegen' = CodegenGate(gen_file, env)
            /\ pc' = "codegen"
            /\ failure' = failure
       ELSE /\ skip_codegen' = skip_codegen
            /\ pc' = "failed"
            /\ failure' = Panic("manifest", << <<"assertion", "failed">> >>)
    /\ UNCHANGED <<platform, env, source_exists, artifacts, gen_file, skip_build,
                   configure_log, src_at_start, gen_at_start>>

\* CODEGEN SETUP: the `headers` file holds content; the assert on its lines,
\* then skip_codegen
LoadManifest(content) ==
    /\ pc = "codegen_setup"
    /\ stdout' = Append(stdout, RerunIfChanged)
    /\ steps' = Append(steps, "manifest")
    /\ ffmpeg_headers' = lines(content)
    /\ IF ManifestAccepted(lines(content))
       THEN /\ skip_codegen' = CodegenGate(gen_file, env)
            /\ pc' = "codegen"
            /\ failure' = failure
       ELSE /\ skip_codegen' = skip_codegen
            /\ pc' = "failed"
            /\ failure' = Panic("manifest", << <<"assertion", "failed">> >>)
    /\ UNCHANGED <<platform, env, source_exists, artifacts, gen_file, skip_build,
                   configure_log, src_at_start, gen_at_start>>

\* CONFIG: skip_codegen is set
CodegenSkip ==
    /\ pc = "codegen"
    /\ skip_codegen
    /\ pc' = "cbits"
    /\ UNCHANGED <<platform, env, source_exists, artifacts, gen_file, skip_build,
                   skip_codegen, ffmpeg_headers, configure_log, stdout, steps,
                   failure, src_at_start, gen_at_start>>

\* CONFIG and RUN: resolve the headers, then generate and write the bindings;
\* ok tells whether generate() and write_to_file() succeed
Codegen(ok) ==
    /\ pc = "codegen"
    /\ ~skip_codegen
    /\ LET missing == Missing(env, source_exists, ffmpeg_headers)
           headers == Resolved(env, source_exists, ffmpeg_headers)
       IN  IF missing # <<>>
           THEN /\ steps' = Append(steps, "resolve")
                /\ pc' = "failed"
                /\ failure' = Panic("missing_headers",
                                    << <<"missing", "headers:">> >> \o missing)
                /\ gen_file' = gen_file
           ELSE /\ steps' = steps \o <<"resolve", "generate">>
                /\ IF ok
                   THEN /\ gen_file' = Generated(headers)
                        /\ pc' = "cbits"
                        /\ failure' = failure
                   ELSE /\ gen_file' = gen_file
                        /\ pc' = "failed"
                        /\ failure' = Panic("codegen",
                                            << <<"Unable", "to", "generate", "bindings">> >>)
    /\ UNCHANGED <<platform, env, source_exists, artifacts, skip_build, skip_codegen,
                   ffmpeg_headers, configure_log, stdout, src_at_start, gen_at_start>>

\* faulty variant: the glue is not compiled again when the bindings were cached
CompileCbits_Cached(ok) ==
    /\ pc = "cbits"
    /\ steps' = IF skip_codegen THEN steps ELSE Append(steps, "cbits")
    /\ IF ok \/ skip_codegen
       THEN pc' = "done" /\ failure' = failure
       ELSE pc' = "failed" /\ failure' = Panic("shim", << <<"cc", "failed">> >>)
    /\ UNCHANGED <<platform, env, source_exists, artifacts, gen_file, skip_build,
                   skip_codegen, ffmpeg_headers, configure_log, stdout,
                   src_at_start, gen_at_start>>

\* COMPILE CBITS; ok tells whether the C compiler succeeds
CompileCbits(ok) ==
    /\ pc = "cbits"
    /\ steps' = Append(steps, "cbits")
    /\ IF ok
       THEN pc' = "done" /\ failure' = failure
       ELSE pc' = "failed" /\ failure' = Panic("shim", << <<"cc", "failed">> >>)
    /\ UNCHANGED <<platform, env, source_exists, artifacts, gen_file, skip_build,
                   skip_codegen, ffmpeg_headers, configure_log, stdout,
                   src_at_start, gen_at_start>>

\* the build script alone: no utility call, no record of the run before
Quiet == UNCHANGED <<prev, call, ret>>

Next ==
    \/ \E e \in Envs : StartRun(e) /\ Quiet
    \/ OutDirMissing /\ Quiet
    \/ EvalBuildGate /\ Quiet
    \/ ExtractSkip /\ Quiet
    \/ ExtractOk /\ Quiet
    \/ \E created \in BOOLEAN : ExtractFail(created) /\ Quiet
    \/ BuildSkip /\ Quiet
    \/ \E res \in ConfigureResults : Configure(res) /\ Quiet
    \/ \E res \in ConfigureResults : ConfigureRetry(res) /\ Quiet
    \/ MakeOk /\ Quiet
    \/ \E left \in PartialArtifacts : MakeFail(left) /\ Quiet
    \/ Link /\ Quiet
    \/ ManifestUnreadable /\ Quiet
    \/ \E content \in ManifestContents : LoadManifest(content) /\ Quiet
    \/ CodegenSkip /\ Quiet
    \/ \E ok \in BOOLEAN : Codegen(ok) /\ Quiet
    \/ \E ok \in BOOLEAN : CompileCbits(ok) /\ Quiet

Spec == Init /\ [][Next]_vars

(***************************************************************************)
(* Runs of the build script one after the other in one output directory,   *)
(* where a run may be terminated from outside while it extracts,           *)
(* configures or compiles; prev records how the run before ended.          *)
(***************************************************************************)
ResumeEnvs ==
    {e \in Envs : e.PROFILE \in {"debug", "release"} /\ e.OPT_LEVEL = "0"}

ResumeConfigureResults ==
    {res \in ConfigureResults : res.stderr = <<>>}

ResumeManifests == {<<"a">>, <<"b">>, <<" ">>}

\* what a terminated make has written: nothing, or all but a few of the
\* artifact files, each of them whole
KilledArtifacts == {S \in PartialArtifacts : S # ArtifactPaths}

InitResume ==
    /\ BuildInit
    /\ platform = "unix"
    /\ prev = NoPrev
    /\ call = NoCall
    /\ ret = NoRet

\* how the run that has just ended, ended
Outcome ==
    IF pc = "idle" THEN "none"
    ELSE IF pc = "done" THEN "done"
    ELSE IF failure.kind = "killed" THEN "killed" ELSE "failed"

\* cargo starts the build script again
StartNextRun(e) ==
    /\ StartRun(e)
    /\ prev' = [outcome |-> Outcome, profile |-> env.PROFILE,
                links |-> SelectSeq(stdout, LAMBDA d : d.key \in {"cargo:rustc-link-search", "cargo:rustc-link-lib"}),
                headers |-> ffmpeg_headers]
    /\ UNCHANGED <<call, ret>>

\* the process is terminated while tar, ./configure or make runs; created
\* tells whether tar had made the source directory, written is what make had
\* written
Kill(created, written) ==
    /\ \/ /\ pc = "extract"
          /\ NeedExtract(source_exists, skip_build)
          /\ steps' = Append(steps, "extract")
          /\ source_exists' = (source_exists \/ created)
          /\ artifacts' = artifacts
       \/ /\ \/ pc = "build" /\ ~skip_build
             \/ pc = "configure_retry"
          /\ steps' = Append(steps, "configure")
          /\ source_exists' = source_exists
          /\ artifacts' = artifacts
       \/ /\ pc = "make"
          /\ steps' = Append(steps, "make")
          /\ source_exists' = source_exists
          /\ artifacts' = artifacts \cup written
    /\ pc' = "failed"
    /\ failure' = Panic("killed", <<>>)
    /\ UNCHANGED <<platform, env, gen_file, skip_build, skip_codegen, ffmpeg_headers,
                   configure_log, stdout, src_at_start, gen_at_start>>

NextResume ==
    \/ \E e \in ResumeEnvs : StartNextRun(e)
    \/ \E created \in BOOLEAN, written \in KilledArtifacts :
          Kill(created, written) /\ Quiet
    \/ OutDirMissing /\ Quiet
    \/ EvalBuildGate /\ Quiet
    \/ ExtractSkip /\ Quiet
    \/ ExtractOk /\ Quiet
    \/ \E created \in BOOLEAN : ExtractFail(created) /\ Quiet
    \/ BuildSkip /\ Quiet
    \/ \E res \in ResumeConfigureResults : Configure(res) /\ Quiet
    \/ \E res \in ResumeConfigureResults : ConfigureRetry(res) /\ Quiet
    \/ MakeOk /\ Quiet
    \/ \E left \in PartialArtifacts : MakeFail(left) /\ Quiet
    \/ Link /\ Quiet
    \/ ManifestUnreadable /\ Quiet
    \/ \E content \in ResumeManifests : LoadManifest(content) /\ Quiet
    \/ CodegenSkip /\ Quiet
    \/ \E ok \in BOOLEAN : Codegen(ok) /\ Quiet
    \/ \E ok \in BOOLEAN : CompileCbits(ok) /\ Quiet

SpecResume == InitResume /\ [][NextResume]_vars

(***************************************************************************)
(* The utility functions extract_tar_file and lookup_newest, each called   *)
(* once on inputs drawn from bounded sets.                                 *)
(***************************************************************************)
\* the directories read_dir can find in the destination after the unpack
DirNames == {"FFmpeg-FFmpeg-2722fc2", "doc"}

\* the calls of extract_tar_file: whether the tar file can be read, whether
\* the unpack succeeds, and the directories the destination then holds
ExtractCalls ==
    [fn : {"extract_tar_file"}, readable : BOOLEAN, unpack_ok : BOOLEAN,
     dirs : SUBSET DirNames, created : {<<>>}]

\* the creation time of a path: -2 when its metadata cannot be read, -1 when
\* it lies before the epoch, else the ticks since the epoch
Times == (0 - 2) .. MaxTime

\* the calls of lookup_newest: the i-th path is named i, created[i] is its
\* creation time
LookupCalls ==
    [fn : {"lookup_newest"}, readable : {TRUE}, unpack_ok : {TRUE}, dirs : {{}},
     created : UNION {[1 .. n -> Times] : n \in 0 .. MaxPaths}]

\* the local tmp_source_dir of extract_tar_file, which nothing reads
tmp_source_dir(dirs) ==
    IF Cardinality(dirs) = 1 THEN <<CHOOSE d \in dirs : TRUE>> ELSE <<>>

extract_tar_file(c) ==
    IF ~c.readable THEN "panic"
    ELSE IF ~c.unpack_ok THEN "Err"
    ELSE LET unused == tmp_source_dir(c.dirs) IN "Ok"

\* the filter_map of lookup_newest: the paths with a readable creation time
\* at or after the epoch, in input order
RECURSIVE WithTimestamp(_, _)
WithTimestamp(created, i) ==
    IF i > Len(created) THEN <<>>
    ELSE (IF created[i] >= 0 THEN <<[path |-> i, created |-> created[i]]>> ELSE <<>>)
         \o WithTimestamp(created, i + 1)

\* faulty variant: a later path with an equal creation time wins
IsNewer_OrEqual(x_created, y_created) == x_created >= y_created

\* &x_created > y_created
IsNewer(x_created, y_created) == x_created > y_created

\* the for_each of lookup_newest over xs, from the candidate newest
RECURSIVE ForEach(_, _)
ForEach(newest, xs) ==
    IF xs = <<>> THEN newest
    ELSE ForEach(IF newest = <<>> THEN <<Head(xs)>>
                 ELSE IF IsNewer(Head(xs).created, newest[1].created)
                      THEN <<Head(xs)>>
                      ELSE newest,
                 Tail(xs))

\* an Option is a sequence of at most one element
lookup_newest(created) ==
    LET newest == ForEach(<<>>, WithTimestamp(created, 1))
    IN  IF newest = <<>> THEN <<>> ELSE <<newest[1].path>>

InitUtils ==
    /\ BuildInit
    /\ prev = NoPrev
    /\ call \in ExtractCalls \cup LookupCalls
    /\ ret = NoRet

CallExtractTarFile ==
    /\ call.fn = "extract_tar_file"
    /\ ~ret.done
    /\ ret' = [done |-> TRUE, value |-> extract_tar_file(call)]
    /\ UNCHANGED <<build_vars, prev, call>>

CallLookupNewest ==
    /\ call.fn = "lookup_newest"
    /\ ~ret.done
    /\ ret' = [done |-> TRUE, value |-> lookup_newest(call.created)]
    /\ UNCHANGED <<build_vars, prev, call>>

NextUtils ==
    \/ CallExtractTarFile
    \/ CallLookupNewest

SpecUtils == InitUtils /\ [][NextUtils]_vars

(***************************************************************************)
(* Vocabulary of the properties.                                           *)
(***************************************************************************)
ReleaseProfiles == {"release", "RELEASE"}

AllArtifactsExist == ArtifactPaths \subseteq artifacts

Executed(step) == \E i \in DOMAIN steps : steps[i] = step

IsLinkDirective(d) == d.key \in {"cargo:rustc-link-search", "cargo:rustc-link-lib"}

LinkLines == SelectSeq(stdout, IsLinkDirective)

IsStaticLink(d) == d.key = "cargo:rustc-link-lib" /\ d.kind = "static"

StaticLinkNames ==
    LET ds == SelectSeq(stdout, IsStaticLink)
    IN  [i \in DOMAIN ds |-> ds[i].value[1]]

AuthoredOrder ==
    <<"avcodec", "avdevice", "avfilter", "avformat", "avutil", "swresample", "swscale">>

NativeErrors == {"env", "extract", "configure", "compile"}

BindingErrors == {"manifest", "missing_headers", "codegen"}

\* the output holds the assembler-missing signature
SignatureIn(out) ==
    \/ \E i \in DOMAIN out.stderr : out.stderr[i] = NasmLine
    \/ \E i \in DOMAIN out.stdout : out.stdout[i] = NasmLine

\* a line that is empty or holds spaces only
IsBlank(line) == \A i \in DOMAIN line : line[i] = " "

IsUnresolved(line) == line \notin SourceHeaders

(***************************************************************************)
(* C1: the native-build gate.                                              *)
(***************************************************************************)
\* C1 as stated: on every target, right after the gate, skip_build is true
\* exactly when every artifact exists, the profile is not release and the
\* forced-rebuild override is not set.
C1_GateOnEveryTarget ==
    pc = "extract" =>
        (skip_build <=> (/\ AllArtifactsExist
                         /\ env.PROFILE \notin ReleaseProfiles
                         /\ env.FFDEV1 # "1"))

\* C1 amended: that equivalence holds on the targets other than windows; on
\* windows the gate yields skip_build = true whatever the artifacts, the
\* profile and the override are.
C1_GatePerTarget ==
    pc = "extract" =>
        IF platform = "windows"
        THEN skip_build
        ELSE (skip_build <=> (/\ AllArtifactsExist
                              /\ env.PROFILE \notin ReleaseProfiles
                              /\ env.FFDEV1 # "1"))

C1_Witness ==
    /\ pc = "extract"
    /\ platform = "unix"
    /\ AllArtifactsExist
    /\ env.PROFILE = "debug"
    /\ env.FFDEV1 = NoVar
    /\ skip_build

(***************************************************************************)
(* C2: fatal errors and link directives.                                   *)
(***************************************************************************)
\* C2 as stated: no run both prints a link directive and ends in a fatal
\* environment, extraction, configure, compile, manifest, missing-headers or
\* codegen error.
C2_NoDirectiveInFailedRun ==
    failure.kind \in (NativeErrors \cup BindingErrors) => LinkLines = <<>>

\* C2 amended: a run that ends in a fatal environment, extraction, configure
\* or compile error has printed no link directive; a run that ends in a
\* fatal manifest, missing-headers or codegen error has printed all of them.
C2_NoDirectiveBeforeNativeError ==
    /\ failure.kind \in NativeErrors => LinkLines = <<>>
    /\ failure.kind \in BindingErrors => LinkLines = LinkDirectives(platform, env)

C2_Witness ==
    /\ pc = "failed"
    /\ failure.kind = "compile"
    /\ Executed("make")
    /\ LinkLines = <<>>

(***************************************************************************)
(* C3: the configure retry.                                                *)
(***************************************************************************)
\* C3: configure runs at most twice; it runs a second time exactly when the
\* first run failed with the assembler-missing signature in its output, and
\* then with the first flags plus --disable-x86asm; a first failure without
\* the signature and a failure of the retry end the run.
C3_RetrySignatureGated ==
    LET n == Len(configure_log)
        first == configure_log[1]
    IN  /\ n <= 2
        /\ n = Cardinality({i \in DOMAIN steps : steps[i] = "configure"})
        /\ n = 2 =>
              /\ ~first.ok
              /\ SignatureIn(first.output)
              /\ configure_log[2].flags = first.flags \o <<"--disable-x86asm">>
        /\ (n >= 1 /\ ~first.ok /\ SignatureIn(first.output)) =>
              (n = 2 \/ pc = "configure_retry")
        /\ (n = 1 /\ ~first.ok /\ ~SignatureIn(first.output)) =>
              (pc = "failed" /\ failure.kind = "configure")
        /\ (n = 2 /\ ~configure_log[2].ok) =>
              (pc = "failed" /\ failure.kind = "configure")

C3_Witness ==
    /\ Len(configure_log) = 2
    /\ ~configure_log[1].ok
    /\ configure_log[2].ok
    /\ pc = "make"

(***************************************************************************)
(* C4: the diagnostic of a failed retry.                                   *)
(***************************************************************************)
\* C4: when the retry fails too, the run ends with the output of the retry.
C4_RetryDiagnostics ==
    (failure.kind = "configure" /\ Len(configure_log) = 2) =>
        failure.text = << <<"configure", "failed:">> >>
                       \o configure_log[2].output.stderr
                       \o configure_log[2].output.stdout

C4_Witness ==
    /\ failure.kind = "configure"
    /\ Len(configure_log) = 2
    /\ configure_log[1].output # configure_log[2].output

(***************************************************************************)
(* C5: the static-link directives.                                         *)
(***************************************************************************)
\* C5: the static-link directives printed are, once the LINK step has run,
\* the seven names in the authored order, each once, whether or not the
\* native build was skipped; before it none is printed.
C5_StaticLinkOrder ==
    StaticLinkNames = IF Executed("link") THEN AuthoredOrder ELSE <<>>

C5_Witness ==
    /\ Executed("link")
    /\ Executed("make")
    /\ ~skip_build
    /\ StaticLinkNames = AuthoredOrder

(***************************************************************************)
(* C6: extraction when the source tree is absent.                          *)
(***************************************************************************)
\* C6: a run that started without the source tree and got past the EXTRACT
\* step has executed the extraction as its first step, and every later step
\* (configure, make, link, manifest, resolve, generate, cbits) runs with the
\* source tree present.
C6_ExtractWhenSourceAbsent ==
    /\ (~src_at_start /\ pc \notin {"idle", "start", "extract"} /\ failure.kind # "env")
          => (steps # <<>> /\ steps[1] = "extract")
    /\ (\E i \in DOMAIN steps : steps[i] # "extract") => source_exists
    /\ pc \in {"build", "configure_retry", "make", "link", "codegen_setup",
               "codegen", "cbits", "done"} => source_exists

C6_Witness ==
    /\ ~src_at_start
    /\ skip_build
    /\ Executed("extract")
    /\ pc = "done"

(***************************************************************************)
(* C7: whole-manifest rejection.                                           *)
(***************************************************************************)
\* C7: a manifest with a line that is empty or holds only spaces ends the
\* run with a manifest error: no header is resolved, nothing is generated
\* and the binding file stays as it was.
C7_BlankLineRejectsManifest ==
    (\E i \in DOMAIN ffmpeg_headers : IsBlank(ffmpeg_headers[i])) =>
        /\ pc = "failed"
        /\ failure.kind = "manifest"
        /\ ~Executed("resolve")
        /\ ~Executed("generate")
        /\ gen_file = gen_at_start

C7_Witness ==
    /\ failure.kind = "manifest"
    /\ Len(ffmpeg_headers) = 2
    /\ ffmpeg_headers[1] = <<"a">>
    /\ IsBlank(ffmpeg_headers[2])
    /\ ffmpeg_headers[2] # <<>>

(***************************************************************************)
(* C8: header resolution.                                                  *)
(***************************************************************************)
\* C8: the bindings are generated only when every manifest entry resolved;
\* with an unresolved entry the run ends with a missing-headers error whose
\* list holds every unresolved entry, in manifest order, nothing is
\* generated and the binding file stays as it was.
C8_ResolveAllOrNothing ==
    LET unresolved == SelectSeq(ffmpeg_headers, IsUnresolved)
    IN  /\ Executed("generate") => unresolved = <<>>
        /\ (Executed("resolve") /\ unresolved # <<>>) =>
              /\ pc = "failed"
              /\ failure.kind = "missing_headers"
        /\ failure.kind = "missing_headers" =>
              /\ ~Executed("generate")
              /\ gen_file = gen_at_start
              /\ Len(failure.text) = 1 + Len(unresolved)
              /\ \A i \in DOMAIN unresolved :
                    failure.text[i + 1] = source_path(env) \o unresolved[i]

C8_Witness ==
    /\ failure.kind = "missing_headers"
    /\ Len(ffmpeg_headers) = 2
    /\ Len(failure.text) = 3

(***************************************************************************)
(* C9: the codegen gate.                                                   *)
(***************************************************************************)
\* C9: once the manifest is accepted, skip_codegen is true exactly when the
\* binding file existed at the start of the run and the force-codegen
\* override is not set; a run that skips neither resolves nor generates and
\* leaves the binding file as it was, whatever the manifest now lists.
C9_CodegenExistenceGate ==
    (Executed("manifest") /\ failure.kind # "manifest") =>
        /\ skip_codegen <=> (gen_at_start.exists /\ env.FFDEV2 # "2")
        /\ skip_codegen =>
              /\ ~Executed("resolve")
              /\ ~Executed("generate")
              /\ gen_file = gen_at_start

C9_Witness ==
    /\ pc = "done"
    /\ skip_codegen
    /\ gen_file.exists
    /\ Len(gen_file.headers) # Len(ffmpeg_headers)

(***************************************************************************)
(* C10: the glue compilation.                                              *)
(***************************************************************************)
\* C10: every run that gets past the codegen phase compiles the glue,
\* whatever skip_build, skip_codegen and the extraction decision were: a run
\* that ends well has compiled it exactly once, as its last step, and a run
\* that ends with a glue error has attempted it.
C10_ShimAlwaysCompiled ==
    /\ pc = "done" =>
          /\ steps[Len(steps)] = "cbits"
          /\ Cardinality({i \in DOMAIN steps : steps[i] = "cbits"}) = 1
    /\ failure.kind = "shim" => steps[Len(steps)] = "cbits"
    /\ pc = "cbits" => ~Executed("cbits")

C10_Witness ==
    /\ pc = "done"
    /\ skip_build
    /\ skip_codegen
    /\ ~Executed("extract")
    /\ Executed("cbits")

(***************************************************************************)
(* C11: extract_tar_file and the extraction result.                        *)
(***************************************************************************)
\* C11: extract_tar_file returns Ok only when the destination holds exactly
\* one directory after the unpack, and an error when it holds none or
\* several.
C11_SingleTopLevelDirectory ==
    (call.fn = "extract_tar_file" /\ ret.done) =>
        /\ ret.value = "Ok" => Cardinality(call.dirs) = 1
        /\ (call.readable /\ Cardinality(call.dirs) # 1) => ret.value = "Err"

(***************************************************************************)
(* C12: lookup_newest.                                                     *)
(***************************************************************************)
\* C12: lookup_newest returns nothing when no path has a creation time that
\* can be read (so for no path at all); else it returns the first path, in
\* input order, among those with the latest readable creation time.
C12_NewestByCreation ==
    (call.fn = "lookup_newest" /\ ret.done) =>
        LET readable == {i \in DOMAIN call.created : call.created[i] >= 0}
            latest == {i \in readable :
                          \A j \in readable : call.created[j] <= call.created[i]}
        IN  IF readable = {}
            THEN ret.value = <<>>
            ELSE /\ Len(ret.value) = 1
                 /\ ret.value[1] \in latest
                 /\ \A j \in latest : ret.value[1] <= j

C12_Witness ==
    /\ call.fn = "lookup_newest"
    /\ ret.done
    /\ Len(call.created) = 3
    /\ call.created[1] < 0
    /\ call.created[2] = 1
    /\ call.created[3] = 1
    /\ ret.value = <<2>>

(***************************************************************************)
(* C13: the states of the native build driver.                             *)
(***************************************************************************)
\* the driver states the run has entered, read off its steps: the first
\* ./configure is Configuring, a further one ConfiguringRetry, make is
\* Compiling
RECURSIVE DriverStates(_, _)
DriverStates(ss, configured) ==
    IF ss = <<>> THEN <<>>
    ELSE IF Head(ss) = "configure"
         THEN <<IF configured THEN "ConfiguringRetry" ELSE "Configuring">>
              \o DriverStates(Tail(ss), TRUE)
         ELSE IF Head(ss) = "make"
              THEN <<"Compiling">> \o DriverStates(Tail(ss), configured)
              ELSE DriverStates(Tail(ss), configured)

\* the states entered so far: those of the steps, the one the run is in when
\* its next ./configure or make has not returned yet, and the final one
DriverTrace ==
    <<"NotStarted">>
    \o DriverStates(steps, FALSE)
    \o (IF pc = "configure_retry" THEN <<"ConfiguringRetry">>
        ELSE IF pc = "make" THEN <<"Compiling">> ELSE <<>>)
    \o (IF failure.kind \in {"configure", "compile"} THEN <<"Failed">>
        ELSE IF Executed("make") THEN <<"Done">> ELSE <<>>)

ListedTransitions ==
    {<<"NotStarted", "Configuring">>,
     <<"Configuring", "Compiling">>,
     <<"Configuring", "ConfiguringRetry">>,
     <<"ConfiguringRetry", "Compiling">>,
     <<"ConfiguringRetry", "Failed">>,
     <<"Compiling", "Done">>,
     <<"Compiling", "Failed">>}

FollowsTransitions(allowed) ==
    \A i \in 1 .. (Len(DriverTrace) - 1) :
        <<DriverTrace[i], DriverTrace[i + 1]>> \in allowed

\* Compiling is entered right after a ./configure that succeeded
CompilingAfterConfigured ==
    /\ pc = "make" =>
          /\ steps # <<>> /\ steps[Len(steps)] = "configure"
          /\ configure_log[Len(configure_log)].ok
    /\ \A i \in DOMAIN steps : steps[i] = "make" =>
          /\ i > 1 /\ steps[i - 1] = "configure"
          /\ configure_log[Len(configure_log)].ok

\* Failed ends the run: the failed ./configure or make is its last step and
\* nothing was printed
FailedIsTerminal ==
    failure.kind \in {"configure", "compile"} =>
        /\ pc = "failed"
        /\ steps[Len(steps)] \in {"configure", "make"}
        /\ stdout = <<>>

\* C13 as stated: every transition of the driver is one of NotStarted ->
\* Configuring -> {Compiling | ConfiguringRetry -> {Compiling | Failed}} ->
\* {Done | Failed}, Compiling follows a successful configure, Failed is final.
C13_ListedTransitionsOnly ==
    /\ FollowsTransitions(ListedTransitions)
    /\ CompilingAfterConfigured
    /\ FailedIsTerminal

\* C13 amended: the same with one more transition, Configuring -> Failed,
\* taken when the first configure fails without the signature.
C13_DriverStateMachine ==
    /\ FollowsTransitions(ListedTransitions \cup {<<"Configuring", "Failed">>})
    /\ CompilingAfterConfigured
    /\ FailedIsTerminal

C13_Witness ==
    /\ pc = "done"
    /\ DriverTrace =
           <<"NotStarted", "Configuring", "ConfiguringRetry", "Compiling", "Done">>

(***************************************************************************)
(* C14: the order of the steps.                                            *)
(***************************************************************************)
StepRank(step) ==
    CASE step = "extract"   -> 1
      [] step = "configure" -> 2
      [] step = "make"      -> 3
      [] step = "link"      -> 4
      [] step = "manifest"  -> 5
      [] step = "resolve"   -> 6
      [] step = "generate"  -> 7
      [] step = "cbits"     -> 8

\* the steps executed are in the order extract, configure, make, link,
\* manifest, resolve, generate, cbits, none twice but configure
StepsInOrder ==
    \A i \in 1 .. (Len(steps) - 1) :
        \/ StepRank(steps[i]) < StepRank(steps[i + 1])
        \/ steps[i] = "configure" /\ steps[i + 1] = "configure"

\* the link directives are printed after the native build was skipped by its
\* gate or make has succeeded
LinkAfterBuild ==
    \A i \in DOMAIN steps : steps[i] = "link" =>
        \/ skip_build /\ ~Executed("configure") /\ ~Executed("make")
        \/ i > 1 /\ steps[i - 1] = "make" /\ AllArtifactsExist

\* a run that ends well has gone through link, manifest and cbits
EndsThroughAllPhases ==
    pc = "done" => (Executed("link") /\ Executed("manifest") /\ Executed("cbits"))

\* C14 as stated: the steps run in the order probe, provision source,
\* gate/build, links, bindings, shim, and the native-build gate is evaluated
\* on the provisioned source tree: when the gate has been evaluated the
\* source tree is there.
C14_GateAfterProvisioning ==
    /\ StepsInOrder
    /\ LinkAfterBuild
    /\ EndsThroughAllPhases
    /\ pc = "extract" => source_exists

\* C14 amended: the steps run in the order probe, native-build gate,
\* provision source, native build, links, bindings, shim; the gate is
\* evaluated before the extraction, on the output directory as the run found
\* it, and no step runs before the gate.
C14_StepOrder ==
    /\ StepsInOrder
    /\ LinkAfterBuild
    /\ EndsThroughAllPhases
    /\ pc \in {"idle", "start"} => steps = <<>>
    /\ pc = "extract" => (steps = <<>> /\ source_exists = src_at_start)

C14_Witness ==
    /\ pc = "done"
    /\ steps = <<"extract", "configure", "make", "link", "manifest", "resolve",
                 "generate", "cbits">>

(***************************************************************************)
(* C15: the configure flags.                                               *)
(***************************************************************************)
\* C15: every configure invocation starts with --disable-programs,
\* --disable-doc, --disable-autodetect; --disable-optimizations,
\* --disable-debug, --disable-stripping follow exactly when the profile is
\* debug and the optimization level is 0; the retry has the flags of the
\* first attempt and then --disable-x86asm.
C15_ConfigureFlags ==
    LET base == <<"--disable-programs", "--disable-doc", "--disable-autodetect">>
        dev == <<"--disable-optimizations", "--disable-debug", "--disable-stripping">>
        expected == IF env.PROFILE = "debug" /\ env.OPT_LEVEL = "0"
                    THEN base \o dev ELSE base
    IN  /\ Len(configure_log) >= 1 => configure_log[1].flags = expected
        /\ Len(configure_log) >= 2 =>
              configure_log[2].flags = expected \o <<"--disable-x86asm">>

C15_Witness ==
    /\ Len(configure_log) = 2
    /\ Len(configure_log[2].flags) = 7
    /\ env.PROFILE = "debug"

(***************************************************************************)
(* C16: the two overrides.                                                 *)
(***************************************************************************)
FlipFFDEV1(e) == [e EXCEPT !.FFDEV1 = IF @ = "1" THEN NoVar ELSE "1"]

FlipFFDEV2(e) == [e EXCEPT !.FFDEV2 = IF @ = "2" THEN NoVar ELSE "2"]

\* C16: with the same files and profile, the native-build gate and the
\* extraction decision are what they would be with the force-codegen
\* override flipped, and the codegen gate is what it would be with the
\* force-native-rebuild override flipped.
C16_OverridesIndependent ==
    /\ pc = "extract" =>
          /\ skip_build = BuildGate(platform, FlipFFDEV2(env), artifacts)
          /\ NeedExtract(source_exists, skip_build)
                = NeedExtract(source_exists,
                              BuildGate(platform, FlipFFDEV2(env), artifacts))
    /\ pc = "codegen" => skip_codegen = CodegenGate(gen_file, FlipFFDEV1(env))

C16_Witness ==
    /\ pc = "codegen"
    /\ env.FFDEV1 = "1"
    /\ env.FFDEV2 = NoVar
    /\ Executed("make")
    /\ skip_codegen

(***************************************************************************)
(* C18: when the archive is extracted.                                     *)
(***************************************************************************)
\* C18: past the EXTRACT step, the extraction was executed exactly when the
\* run started without the source tree or the native build is not skipped;
\* a run that configures has extracted first.
C18_ExtractIffAbsentOrBuilding ==
    /\ (pc \notin {"idle", "start", "extract"} /\ failure.kind # "env") =>
          (Executed("extract") <=> (~src_at_start \/ ~skip_build))
    /\ Executed("configure") => steps[1] = "extract"

C18_Witness ==
    /\ src_at_start
    /\ ~skip_build
    /\ steps = <<"extract", "configure">>

(***************************************************************************)
(* C19: the manifest check and the codegen cache.                          *)
(***************************************************************************)
\* C19: every run that gets to the codegen gate has read and checked the
\* manifest; a blank line ends the run before the glue is compiled, also
\* when the binding file exists and the override is not set; the headers
\* are resolved only when the code generation is not skipped.
C19_ManifestCheckedBeforeGate ==
    /\ (pc \in {"codegen", "cbits", "done"}
        \/ failure.kind \in {"missing_headers", "codegen", "shim"})
          => (Executed("manifest")
              /\ \A i \in DOMAIN ffmpeg_headers : ~IsBlank(ffmpeg_headers[i]))
    /\ (Executed("manifest")
        /\ \E i \in DOMAIN ffmpeg_headers : IsBlank(ffmpeg_headers[i]))
          => (pc = "failed" /\ ~Executed("cbits"))
    /\ Executed("resolve") => ~skip_codegen

C19_Witness ==
    /\ failure.kind = "manifest"
    /\ gen_at_start.exists
    /\ env.FFDEV2 = NoVar
    /\ \E i \in DOMAIN ffmpeg_headers : IsBlank(ffmpeg_headers[i])

(***************************************************************************)
(* C17: the run after a terminated one.                                    *)
(***************************************************************************)
\* the run before was terminated while it extracted, configured or compiled,
\* and this run has the profile of that run and no override
ResumesTerminatedRun ==
    /\ prev.outcome = "killed"
    /\ env.PROFILE = prev.profile
    /\ env.FFDEV1 = NoVar
    /\ env.FFDEV2 = NoVar

\* C17: a run that follows a run terminated during extraction, configure or
\* make, with the same profile and no override, does not skip the native
\* build, and prints link directives only after its own make.
C17_ResumesThroughGate ==
    ResumesTerminatedRun =>
        /\ (pc \notin {"idle", "start"} /\ failure.kind # "env") => ~skip_build
        /\ Executed("link") => Executed("make")

(***************************************************************************)
(* C20: the run after a successful one.                                    *)
(***************************************************************************)
\* the run before ended well, it left the source tree, every artifact and
\* the generated file, and this run has a profile other than release, no
\* override and an output directory
CachedRerun ==
    /\ prev.outcome = "done"
    /\ src_at_start
    /\ gen_at_start.exists
    /\ env.OUT_DIR # NoVar
    /\ env.PROFILE \notin ReleaseProfiles
    /\ env.FFDEV1 = NoVar
    /\ env.FFDEV2 = NoVar

\* C20: in a cached re-run nothing is extracted, configured, compiled or
\* generated, the source tree, the artifacts and the generated file stay as
\* they were, the link directives printed are those of the run before, and
\* with the manifest of the run before the glue is compiled.
C20_CachedRerunSkipsExpensiveSteps ==
    CachedRerun =>
        /\ \A i \in DOMAIN steps : steps[i] \in {"link", "manifest", "cbits"}
        /\ configure_log = <<>>
        /\ source_exists /\ AllArtifactsExist /\ gen_file = gen_at_start
        /\ Executed("link") => LinkLines = prev.links
        /\ pc \in {"codegen_setup", "codegen", "cbits", "done"} => Executed("link")
        /\ (pc \in {"done", "failed"} /\ Executed("manifest")
            /\ ffmpeg_headers = prev.headers /\ prev.headers # <<>>)
              => (Executed("cbits") /\ failure.kind \in {"none", "shim"})

C20_Witness ==
    /\ CachedRerun
    /\ pc = "done"
    /\ steps = <<"link", "manifest", "cbits">>
    /\ LinkLines = prev.links
    /\ LinkLines # <<>>

====
